---- MODULE Spec2Model ----
(***************************************************************************)
(* A model of NatsAdapter (nats.go): the adapter that wraps a yagnats       *)
(* broker client, stores its subscriptions and replays them on Connect.    *)
(*                                                                         *)
(* The adapter's fields are the variables client, config, subscriptions,   *)
(* rand, connectedCallback and logger.  The broker side that the adapter   *)
(* talks to is the variables clients (the clients a Connect has opened,    *)
(* none of which nats.go ever closes) and listeners (the handlers          *)
(* registered with client.Subscribe).  Every call of the broker client     *)
(* that returns an error may fail: its outcome is an input of the action.  *)
(*                                                                         *)
(* ret, trace and invoked observe the last step: what the operation        *)
(* returned, the broker-client calls it made in order, and the user        *)
(* handlers it invoked in order.  calls holds the position and the locals  *)
(* of a Subscribe and a Connect that run concurrently, statement by        *)
(* statement; the operations above them run as a whole.                    *)
(***************************************************************************)
EXTENDS Integers, Sequences, FiniteSets, TLC

VARIABLES client, config, subscriptions, rand, connectedCallback, logger,
          clients, listeners, made, uuids, rejected, ret, trace, invoked,
          calls

vars == <<client, config, subscriptions, rand, connectedCallback, logger,
          clients, listeners, made, uuids, rejected, ret, trace, invoked,
          calls>>

(* Bounds of the model: over a run, the subscriptions created, the clients
   opened and the registrations the broker client rejects *)
MaxSubs == 2
MaxClients == 2
MaxRejected == 1

(* nil handles, nil functions and the nil error *)
NoClient == 0
NoFunc == 0
Nil == "nil"

(* The inputs of the operations: the subjects of Subscribe and of the
   messages that arrive, and among them the channels that RespondToChannel
   answers on and that Publish and Request send to *)
Subjects == {"a", "b"}
Channels == {"a"}
Payloads == {1}
ReplyTos == {"", "reply.to"}
Configs == {"h1:4222"}
ConnectCallbacks == {NoFunc, 1, 2}
Loggers == {1}

(* The errors the adapter builds itself, and the ones it passes on *)
ErrNoConnection == "No connection to Nats"
ErrCaching == "No connection to Nats. Caching subscription..."
ErrConnect == "connect failed"
ErrPublish == "publish failed"
ErrUuid == "uuid failed"

(* The id client.Subscribe returns together with an error; subscribeInNats
   stores it in sub.id all the same.  The ids of accepted registrations are
   positive. *)
FailedSid == -1

(* fmt.Sprintf("_INBOX.%s", uuid); uuid.NewV4 never returns a value twice *)
Inbox(u) == "_INBOX." \o ToString(u)

Inboxes == {Inbox(u) : u \in 1..uuids}
AllSubjects == Subjects \cup Inboxes

(* What reply handler h returns for payload p *)
ReplyOf(h, p) == 10 * h + p

Subscription(subject, callback, reply) ==
    [subject |-> subject, callback |-> callback, reply |-> reply, id |-> 0]

Message(subject, replyTo, payload) ==
    [subject |-> subject, replyTo |-> replyTo, payload |-> payload]

(* One call of the broker client c; for Connect the subject is the address *)
Call(name, c, subject, replyTo, payload) ==
    [call |-> name, client |-> c, subject |-> subject, replyTo |-> replyTo,
     payload |-> payload]

(* One invocation of a user function: a callback, a reply handler or the
   connected callback *)
Invocation(kind, h, payload) == [kind |-> kind, h |-> h, payload |-> payload]

Ret(op, subject, replyTo, payload, err, val) ==
    [op |-> op, subject |-> subject, replyTo |-> replyTo, payload |-> payload,
     err |-> err, val |-> val]

(* No concurrent call has started.  Of the concurrent Subscribe: where it
   is, the place of its subscription in the stored sequence, what it
   returned, and the registrations of that subscription that were asked of
   the broker client, by whom and with what answer.  Of the concurrent
   Connect: where it is, its new client, the length of the sequence its
   range statement took and the index of its loop, and what it returned. *)
NoCalls ==
    [Subscribe |-> [pc |-> "idle", i |-> 0, err |-> Nil, asked |-> <<>>],
     Connect |-> [pc |-> "idle", c |-> NoClient, n |-> 0, i |-> 0, err |-> Nil]]

Init ==
    /\ client = NoClient
    /\ config = ""
    /\ subscriptions = <<>>
    /\ rand = 0
    /\ connectedCallback = NoFunc
    /\ logger = NoFunc
    /\ clients = <<>>
    /\ listeners = <<>>
    /\ made = 0
    /\ uuids = 0
    /\ rejected = 0
    /\ ret = Ret("NewNatsAdapter", "", "", 0, Nil, FALSE)
    /\ trace = <<>>
    /\ invoked = <<>>
    /\ calls = NoCalls

(* The part of the state that the subscribing code reads and writes *)
State ==
    [client |-> client, subscriptions |-> subscriptions, clients |-> clients,
     listeners |-> listeners, rejected |-> rejected, trace |-> <<>>]

Commit(st) ==
    /\ st.rejected <= MaxRejected
    /\ subscriptions' = st.subscriptions
    /\ clients' = st.clients
    /\ listeners' = st.listeners
    /\ rejected' = st.rejected
    /\ trace' = st.trace

(* subscribeInNats(adapter, sub) for the stored subscription number i; ok is
   whether adapter.client.Subscribe accepts the registration.  The listener
   keeps the closure's captures: the subscription's callback and reply. *)
subscribeInNats(st, i, ok) ==
    LET sub == st.subscriptions[i]
        c == st.client
        sid == IF ok THEN st.clients[c].sids + 1 ELSE FailedSid
    IN [st EXCEPT
          !.listeners = IF ok
                        THEN Append(@, [client |-> c, sid |-> sid,
                                        subject |-> sub.subject,
                                        callback |-> sub.callback,
                                        reply |-> sub.reply])
                        ELSE @,
          !.clients = IF ok THEN [@ EXCEPT ![c].sids = sid] ELSE @,
          !.rejected = IF ok THEN @ ELSE @ + 1,
          !.trace = Append(@, Call("Subscribe", c, sub.subject, "", 0)),
          !.subscriptions = [@ EXCEPT ![i].id = sid]]

(* appendAndSubscribe with the new subscription put first in the sequence *)
appendAndSubscribe_Prepends(st, sub, ok) ==
    LET st1 == [st EXCEPT !.subscriptions = <<sub>> \o @]
    IN IF st1.client # NoClient
       THEN subscribeInNats(st1, 1, ok)
       ELSE st1

(* The body shared by Subscribe and RespondToChannel: append, then register
   when there is a client *)
appendAndSubscribe(st, sub, ok) ==
    LET st1 == [st EXCEPT !.subscriptions = Append(@, sub)]
    IN IF st1.client # NoClient
       THEN subscribeInNats(st1, Len(st1.subscriptions), ok)
       ELSE st1

subscribeResult(st) == IF st.client # NoClient THEN Nil ELSE ErrCaching

Configure(cfg) ==
    /\ config' = cfg
    /\ ret' = Ret("Configure", "", "", 0, Nil, FALSE)
    /\ trace' = <<>>
    /\ invoked' = <<>>
    /\ UNCHANGED <<client, subscriptions, rand, connectedCallback, logger,
                   clients, listeners, made, uuids, rejected,
                   calls>>

(* OnConnect that keeps a callback that is already registered *)
OnConnect_KeepsFirst(callback) ==
    /\ connectedCallback' = IF connectedCallback = NoFunc
                            THEN callback
                            ELSE connectedCallback
    /\ ret' = Ret("OnConnect", "", "", callback, Nil, FALSE)
    /\ trace' = <<>>
    /\ invoked' = <<>>
    /\ UNCHANGED <<client, config, subscriptions, rand, logger, clients,
                   listeners, made, uuids, rejected,
                   calls>>

(* OnConnect(callback); ret.payload keeps the callback that was passed *)
OnConnect(callback) ==
    /\ connectedCallback' = callback
    /\ ret' = Ret("OnConnect", "", "", callback, Nil, FALSE)
    /\ trace' = <<>>
    /\ invoked' = <<>>
    /\ UNCHANGED <<client, config, subscriptions, rand, logger, clients,
                   listeners, made, uuids, rejected,
                   calls>>

SetLogger(l) ==
    /\ logger' = l
    /\ ret' = Ret("SetLogger", "", "", 0, Nil, FALSE)
    /\ trace' = <<>>
    /\ invoked' = <<>>
    /\ UNCHANGED <<client, config, subscriptions, rand, connectedCallback,
                   clients, listeners, made, uuids, rejected,
                   calls>>

(* The loop of connect over the stored subscriptions, from number i on *)
RECURSIVE replay(_, _, _)
replay(st, i, oks) ==
    IF i > Len(st.subscriptions)
    THEN st
    ELSE replay(subscribeInNats(st, i, oks[i]), i + 1, oks)

(* connected without the replay of the stored subscriptions *)
connected_NoReplay(st, c, oks) ==
    [st EXCEPT !.client = c]

(* connected with a replay that starts at the second stored subscription *)
connected_SkipsFirst(st, c, oks) ==
    replay([st EXCEPT !.client = c], 2, oks)

(* connected that takes the subscriptions whose registration was rejected
   out of the stored sequence *)
connected_DropsRejected(st, c, oks) ==
    LET st1 == replay([st EXCEPT !.client = c], 1, oks)
    IN [st1 EXCEPT !.subscriptions = SelectSeq(@, LAMBDA sub : sub.id # FailedSid)]

(* connect() after a successful open of the new client c *)
connected(st, c, oks) ==
    replay([st EXCEPT !.client = c], 1, oks)

(* connectFailed that also gives up the client the adapter had *)
connectFailed_DropsClient(c) ==
    /\ ret' = Ret("Connect", "", "", 0, ErrConnect, FALSE)
    /\ trace' = <<Call("Connect", c, config, "", 0)>>
    /\ client' = NoClient
    /\ UNCHANGED <<subscriptions, rand, clients, listeners, rejected>>

(* connectFailed that also forgets the stored subscriptions *)
connectFailed_ForgetsSubscriptions(c) ==
    /\ ret' = Ret("Connect", "", "", 0, ErrConnect, FALSE)
    /\ trace' = <<Call("Connect", c, config, "", 0)>>
    /\ subscriptions' = <<>>
    /\ UNCHANGED <<client, rand, clients, listeners, rejected>>

(* connect() when the open of the new client c fails *)
connectFailed(c) ==
    /\ ret' = Ret("Connect", "", "", 0, ErrConnect, FALSE)
    /\ trace' = <<Call("Connect", c, config, "", 0)>>
    /\ UNCHANGED <<client, subscriptions, rand, clients, listeners, rejected>>

(* Connect: openOk is the outcome of client.Connect on the new client, oks
   the outcomes of the registrations of the replay *)
Connect(openOk, oks) ==
    LET c == Len(clients) + 1
        st0 == [State EXCEPT
                  !.clients = Append(@, [Logger |-> logger, sids |-> 0]),
                  !.trace = <<Call("Connect", c, config, "", 0)>>]
    IN /\ IF openOk
          THEN /\ Len(clients) < MaxClients
               /\ Commit(connected(st0, c, oks))
               /\ client' = c
               /\ rand' = c
               /\ ret' = Ret("Connect", "", "", 0, Nil, FALSE)
          ELSE /\ \A i \in DOMAIN oks : oks[i]
               /\ connectFailed(c)
       /\ invoked' = <<>>
       /\ UNCHANGED <<config, connectedCallback, logger, made, uuids,
                   calls>>

Subscribe(subject, ok) ==
    /\ made < MaxSubs
    /\ client = NoClient => ok
    /\ Commit(appendAndSubscribe(State, Subscription(subject, made + 1, NoFunc), ok))
    /\ made' = made + 1
    /\ ret' = Ret("Subscribe", subject, "", 0, subscribeResult(State), FALSE)
    /\ invoked' = <<>>
    /\ UNCHANGED <<client, config, rand, connectedCallback, logger, uuids,
                   calls>>

(* client.UnsubscribeAll(subject) on the adapter's client *)
clientUnsubscribeAll(st, subject) ==
    [st EXCEPT
       !.listeners = SelectSeq(@, LAMBDA l :
                                  ~(l.client = st.client /\ l.subject = subject)),
       !.trace = Append(@, Call("UnsubscribeAll", st.client, subject, "", 0))]

RECURSIVE unsubscribeEach(_, _)
unsubscribeEach(st, i) ==
    IF i > Len(st.subscriptions)
    THEN st
    ELSE unsubscribeEach(clientUnsubscribeAll(st, st.subscriptions[i].subject), i + 1)

unsubscribeAll(st) ==
    [unsubscribeEach(st, 1) EXCEPT !.subscriptions = <<>>]

(* UnsubscribeAll without the connection check *)
UnsubscribeAll_NoCheck ==
    /\ ret' = Ret("UnsubscribeAll", "", "", 0, Nil, FALSE)
    /\ Commit(unsubscribeAll(State))
    /\ invoked' = <<>>
    /\ UNCHANGED <<client, config, rand, connectedCallback, logger, made, uuids,
                   calls>>

UnsubscribeAll ==
    /\ IF client = NoClient
       THEN /\ ret' = Ret("UnsubscribeAll", "", "", 0, ErrNoConnection, FALSE)
            /\ trace' = <<>>
            /\ UNCHANGED <<subscriptions, clients, listeners, rejected>>
       ELSE /\ ret' = Ret("UnsubscribeAll", "", "", 0, Nil, FALSE)
            /\ Commit(unsubscribeAll(State))
    /\ invoked' = <<>>
    /\ UNCHANGED <<client, config, rand, connectedCallback, logger, made, uuids,
                   calls>>

Publish(subject, message, ok) ==
    /\ IF client = NoClient
       THEN /\ ok
            /\ ret' = Ret("Publish", subject, "", message, ErrNoConnection, FALSE)
            /\ trace' = <<>>
       ELSE /\ ret' = Ret("Publish", subject, "", message,
                          IF ok THEN Nil ELSE ErrPublish, FALSE)
            /\ trace' = <<Call("Publish", client, subject, "", message)>>
    /\ invoked' = <<>>
    /\ UNCHANGED <<client, config, subscriptions, rand, connectedCallback, logger,
                   clients, listeners, made, uuids, rejected,
                   calls>>

(* Request that looks at the error of createInbox only after it has
   subscribed the inbox, which is the empty string createInbox returns with
   the error *)
Request_SubscribesBeforeCheck(subject, message, uuidOk, subOk, pubOk) ==
    LET inbox == IF uuidOk THEN Inbox(uuids + 1) ELSE ""
        st1 == appendAndSubscribe(State, Subscription(inbox, made + 1, NoFunc), subOk)
        st2 == [st1 EXCEPT !.trace = Append(@, Call("PublishWithReplyTo", client,
                                                   subject, inbox, message))]
    IN /\ IF client = NoClient
          THEN /\ uuidOk /\ subOk /\ pubOk
               /\ ret' = Ret("Request", subject, "", message, ErrNoConnection, FALSE)
               /\ trace' = <<>>
               /\ UNCHANGED <<subscriptions, clients, listeners, made, uuids, rejected>>
          ELSE IF ~uuidOk
          THEN /\ pubOk
               /\ made < MaxSubs
               /\ Commit(st1)
               /\ made' = made + 1
               /\ ret' = Ret("Request", subject, "", message, ErrUuid, FALSE)
               /\ UNCHANGED uuids
          ELSE /\ made < MaxSubs
               /\ Commit(st2)
               /\ made' = made + 1
               /\ uuids' = uuids + 1
               /\ ret' = Ret("Request", subject, inbox, message,
                             IF pubOk THEN Nil ELSE ErrPublish, FALSE)
       /\ invoked' = <<>>
       /\ UNCHANGED <<client, config, rand, connectedCallback, logger,
                   calls>>

(* Request that takes the inbox back, out of the stored sequence and off
   the broker client, when the publish fails *)
Request_RollsBack(subject, message, uuidOk, subOk, pubOk) ==
    LET inbox == Inbox(uuids + 1)
        st1 == appendAndSubscribe(State, Subscription(inbox, made + 1, NoFunc), subOk)
        st2 == [st1 EXCEPT !.trace = Append(@, Call("PublishWithReplyTo", client,
                                                   subject, inbox, message))]
        st3 == [st2 EXCEPT !.subscriptions = subscriptions,
                           !.listeners = listeners]
    IN /\ IF client = NoClient
          THEN /\ uuidOk /\ subOk /\ pubOk
               /\ ret' = Ret("Request", subject, "", message, ErrNoConnection, FALSE)
               /\ trace' = <<>>
               /\ UNCHANGED <<subscriptions, clients, listeners, made, uuids, rejected>>
          ELSE IF ~uuidOk
          THEN /\ subOk /\ pubOk
               /\ ret' = Ret("Request", subject, "", message, ErrUuid, FALSE)
               /\ trace' = <<>>
               /\ UNCHANGED <<subscriptions, clients, listeners, made, uuids, rejected>>
          ELSE /\ made < MaxSubs
               /\ Commit(IF pubOk THEN st2 ELSE st3)
               /\ made' = made + 1
               /\ uuids' = uuids + 1
               /\ ret' = Ret("Request", subject, inbox, message,
                             IF pubOk THEN Nil ELSE ErrPublish, FALSE)
       /\ invoked' = <<>>
       /\ UNCHANGED <<client, config, rand, connectedCallback, logger,
                   calls>>

(* Request that publishes before it subscribes the inbox *)
Request_PublishFirst(subject, message, uuidOk, subOk, pubOk) ==
    LET inbox == Inbox(uuids + 1)
        st1 == [State EXCEPT !.trace = Append(@, Call("PublishWithReplyTo", client,
                                                     subject, inbox, message))]
        st2 == appendAndSubscribe(st1, Subscription(inbox, made + 1, NoFunc), subOk)
    IN /\ IF client = NoClient
          THEN /\ uuidOk /\ subOk /\ pubOk
               /\ ret' = Ret("Request", subject, "", message, ErrNoConnection, FALSE)
               /\ trace' = <<>>
               /\ UNCHANGED <<subscriptions, clients, listeners, made, uuids, rejected>>
          ELSE IF ~uuidOk
          THEN /\ subOk /\ pubOk
               /\ ret' = Ret("Request", subject, "", message, ErrUuid, FALSE)
               /\ trace' = <<>>
               /\ UNCHANGED <<subscriptions, clients, listeners, made, uuids, rejected>>
          ELSE /\ made < MaxSubs
               /\ Commit(st2)
               /\ made' = made + 1
               /\ uuids' = uuids + 1
               /\ ret' = Ret("Request", subject, inbox, message,
                             IF pubOk THEN Nil ELSE ErrPublish, FALSE)
       /\ invoked' = <<>>
       /\ UNCHANGED <<client, config, rand, connectedCallback, logger,
                   calls>>

(* Request: uuidOk is the outcome of uuid.NewV4, subOk of the registration of
   the inbox, pubOk of client.PublishWithReplyTo *)
Request(subject, message, uuidOk, subOk, pubOk) ==
    LET inbox == Inbox(uuids + 1)
        st1 == appendAndSubscribe(State, Subscription(inbox, made + 1, NoFunc), subOk)
        st2 == [st1 EXCEPT !.trace = Append(@, Call("PublishWithReplyTo", client,
                                                   subject, inbox, message))]
    IN /\ IF client = NoClient
          THEN /\ uuidOk /\ subOk /\ pubOk
               /\ ret' = Ret("Request", subject, "", message, ErrNoConnection, FALSE)
               /\ trace' = <<>>
               /\ UNCHANGED <<subscriptions, clients, listeners, made, uuids, rejected>>
          ELSE IF ~uuidOk
          THEN /\ subOk /\ pubOk
               /\ ret' = Ret("Request", subject, "", message, ErrUuid, FALSE)
               /\ trace' = <<>>
               /\ UNCHANGED <<subscriptions, clients, listeners, made, uuids, rejected>>
          ELSE /\ made < MaxSubs
               /\ Commit(st2)
               /\ made' = made + 1
               /\ uuids' = uuids + 1
               /\ ret' = Ret("Request", subject, inbox, message,
                             IF pubOk THEN Nil ELSE ErrPublish, FALSE)
       /\ invoked' = <<>>
       /\ UNCHANGED <<client, config, rand, connectedCallback, logger,
                   calls>>

RespondToChannel(subject, ok) ==
    /\ made < MaxSubs
    /\ client = NoClient => ok
    /\ Commit(appendAndSubscribe(State, Subscription(subject, NoFunc, made + 1), ok))
    /\ made' = made + 1
    /\ ret' = Ret("RespondToChannel", subject, "", 0, subscribeResult(State), FALSE)
    /\ invoked' = <<>>
    /\ UNCHANGED <<client, config, rand, connectedCallback, logger, uuids,
                   calls>>

(* Ping: alive is what client.Ping answers *)
Ping(alive) ==
    /\ IF client = NoClient
       THEN /\ alive
            /\ ret' = Ret("Ping", "", "", 0, Nil, FALSE)
            /\ trace' = <<>>
       ELSE /\ ret' = Ret("Ping", "", "", 0, Nil, alive)
            /\ trace' = <<Call("Ping", client, "", "", 0)>>
    /\ invoked' = <<>>
    /\ UNCHANGED <<client, config, subscriptions, rand, connectedCallback, logger,
                   clients, listeners, made, uuids, rejected,
                   calls>>

(* What one handler run leaves behind: the calls and invocations so far *)
Effects == [trace |-> <<>>, invoked |-> <<>>]

(* replyToMessage that publishes the reply on the subject of the message *)
replyToMessage_ToSubject(eff, msg, callback) ==
    IF msg.replyTo = ""
    THEN eff
    ELSE [eff EXCEPT
            !.invoked = Append(@, Invocation("reply", callback, msg.payload)),
            !.trace = Append(@, Call("Publish", client, msg.subject, "",
                                     ReplyOf(callback, msg.payload)))]

(* replyToMessage that runs the reply handler before it looks at ReplyTo *)
replyToMessage_HandlerFirst(eff, msg, callback) ==
    LET ran == [eff EXCEPT
                  !.invoked = Append(@, Invocation("reply", callback, msg.payload))]
    IN IF msg.replyTo = ""
       THEN ran
       ELSE [ran EXCEPT
               !.trace = Append(@, Call("Publish", client, msg.replyTo, "",
                                        ReplyOf(callback, msg.payload)))]

(* replyToMessage(msg, callback); what a.client.Publish returns is dropped *)
replyToMessage(eff, msg, callback) ==
    IF msg.replyTo = ""
    THEN eff
    ELSE [eff EXCEPT
            !.invoked = Append(@, Invocation("reply", callback, msg.payload)),
            !.trace = Append(@, Call("Publish", client, msg.replyTo, "",
                                     ReplyOf(callback, msg.payload)))]

(* handler whose callback branch also answers a message that carries a
   reply-to address *)
handler_RepliesToo(eff, l, msg) ==
    IF l.reply # NoFunc
    THEN replyToMessage(eff, msg, l.reply)
    ELSE LET ran == [eff EXCEPT
                       !.invoked = Append(@, Invocation("callback", l.callback,
                                                        msg.payload))]
         IN IF msg.replyTo = ""
            THEN ran
            ELSE [ran EXCEPT
                    !.trace = Append(@, Call("Publish", client, msg.replyTo, "",
                                             msg.payload))]

(* The function subscribeInNats hands to client.Subscribe, run for listener l *)
handler(eff, l, msg) ==
    IF l.reply # NoFunc
    THEN replyToMessage(eff, msg, l.reply)
    ELSE [eff EXCEPT
            !.invoked = Append(@, Invocation("callback", l.callback, msg.payload))]

(* The broker hands msg to every listener on its subject, on every client
   that a Connect has opened, in the order of registration *)
RECURSIVE deliver(_, _, _)
deliver(eff, i, msg) ==
    IF i > Len(listeners)
    THEN eff
    ELSE deliver(IF listeners[i].subject = msg.subject
                 THEN handler(eff, listeners[i], msg)
                 ELSE eff,
                 i + 1, msg)

(* Dispatch that drops the stored subscription of an inbox once a message
   has arrived on it *)
Dispatch_DropsInbox(msg) ==
    /\ \E i \in DOMAIN listeners : listeners[i].subject = msg.subject
    /\ LET eff == deliver(Effects, 1, msg)
       IN /\ trace' = eff.trace
          /\ invoked' = eff.invoked
    /\ ret' = Ret("Dispatch", msg.subject, msg.replyTo, msg.payload, Nil, FALSE)
    /\ subscriptions' = SelectSeq(subscriptions, LAMBDA sub :
                              ~(sub.subject = msg.subject /\ sub.subject \in Inboxes))
    /\ UNCHANGED <<client, config, rand, connectedCallback, logger,
                   clients, listeners, made, uuids, rejected,
                   calls>>

(* A message arrives from the broker *)
Dispatch(msg) ==
    /\ \E i \in DOMAIN listeners : listeners[i].subject = msg.subject
    /\ LET eff == deliver(Effects, 1, msg)
       IN /\ trace' = eff.trace
          /\ invoked' = eff.invoked
    /\ ret' = Ret("Dispatch", msg.subject, msg.replyTo, msg.payload, Nil, FALSE)
    /\ UNCHANGED <<client, config, subscriptions, rand, connectedCallback, logger,
                   clients, listeners, made, uuids, rejected,
                   calls>>

(* client.ConnectedCallback of the open client c, as set by connect *)
ConnectedCallback(c) ==
    /\ c \in DOMAIN clients
    /\ invoked' = IF connectedCallback # NoFunc
                  THEN <<Invocation("connected", connectedCallback, 0)>>
                  ELSE <<>>
    /\ trace' = <<>>
    /\ ret' = Ret("ConnectedCallback", "", "", 0, Nil, FALSE)
    /\ UNCHANGED <<client, config, subscriptions, rand, connectedCallback, logger,
                   clients, listeners, made, uuids, rejected,
                   calls>>

(* The operations on the connection and the subscriptions, and the messages
   the broker delivers *)
Next ==
    \/ \E openOk \in BOOLEAN, oks \in [DOMAIN subscriptions -> BOOLEAN] :
          Connect(openOk, oks)
    \/ \E s \in Subjects, ok \in BOOLEAN : Subscribe(s, ok)
    \/ \E s \in Channels, ok \in BOOLEAN : RespondToChannel(s, ok)
    \/ UnsubscribeAll
    \/ \E s \in Channels, m \in Payloads, ok \in BOOLEAN : Publish(s, m, ok)
    \/ \E s \in Channels, m \in Payloads, uuidOk, subOk, pubOk \in BOOLEAN :
          Request(s, m, uuidOk, subOk, pubOk)
    \/ \E alive \in BOOLEAN : Ping(alive)
    \/ \E s \in AllSubjects, r \in ReplyTos, p \in Payloads :
          Dispatch(Message(s, r, p))

(* The setters of the adapter and the connected events of its clients; they
   read and write nothing that the operations of Next decide on *)
Setup ==
    \/ \E cfg \in Configs : Configure(cfg)
    \/ \E cb \in ConnectCallbacks : OnConnect(cb)
    \/ \E l \in Loggers : SetLogger(l)
    \/ \E c \in DOMAIN clients : ConnectedCallback(c)

NextAll == Next \/ Setup

(* The adapter used without its setters: config, connectedCallback and
   logger keep the values NewNatsAdapter gives them *)
Spec == Init /\ [][Next]_vars

(* The adapter with every operation *)
SpecAll == Init /\ [][NextAll]_vars

(***************************************************************************)
(* One Subscribe and one Connect that run concurrently.  nats.go takes no  *)
(* lock, so the statements of the two calls interleave in any order: the   *)
(* append, the check of the handle and the registration of Subscribe; the  *)
(* open, the assignment of the handle, the range statement and the         *)
(* iterations of the loop of connect.                                      *)
(***************************************************************************)

(* No concurrent call has started: the operations run one after another *)
Idle == calls = NoCalls

(* The rest of a step of a concurrent call: it returns nothing yet, invokes
   no handler, and op names the statement *)
Statement(op, subject) ==
    /\ ret' = Ret(op, subject, "", 0, Nil, FALSE)
    /\ invoked' = <<>>
    /\ UNCHANGED <<config, connectedCallback, logger, uuids>>

(* One registration of the concurrent Subscribe's subscription was asked of
   the adapter's client, by Subscribe or by the loop of connect *)
Asked(by, i, ok) ==
    IF i = calls.Subscribe.i
    THEN <<[by |-> by, client |-> client, ok |-> ok]>>
    ELSE <<>>

(* Subscribe, its first statement: the new subscription is appended *)
SubscribeAppend(subject) ==
    /\ calls.Subscribe.pc = "idle"
    /\ made < MaxSubs
    /\ subscriptions' = Append(subscriptions, Subscription(subject, made + 1, NoFunc))
    /\ made' = made + 1
    /\ calls' = [calls EXCEPT !.Subscribe.pc = "check",
                              !.Subscribe.i = Len(subscriptions) + 1]
    /\ trace' = <<>>
    /\ Statement("Subscribe.append", subject)
    /\ UNCHANGED <<client, rand, clients, listeners, rejected>>

(* Subscribe, `if adapter.client != nil`: without a handle it returns the
   advisory error *)
SubscribeCheck ==
    /\ calls.Subscribe.pc = "check"
    /\ calls' = IF client # NoClient
                THEN [calls EXCEPT !.Subscribe.pc = "register"]
                ELSE [calls EXCEPT !.Subscribe.pc = "done",
                                   !.Subscribe.err = ErrCaching]
    /\ trace' = <<>>
    /\ Statement("Subscribe.check", "")
    /\ UNCHANGED <<client, subscriptions, rand, clients, listeners, made, rejected>>

(* Subscribe, subscribeInNats(adapter, sub): it registers with the client
   the adapter has now, and returns nil *)
SubscribeRegister(ok) ==
    /\ calls.Subscribe.pc = "register"
    /\ Commit(subscribeInNats(State, calls.Subscribe.i, ok))
    /\ calls' = [calls EXCEPT !.Subscribe.pc = "done",
                              !.Subscribe.asked = @ \o Asked("Subscribe", calls.Subscribe.i, ok)]
    /\ Statement("Subscribe.register", "")
    /\ UNCHANGED <<client, rand, made>>

(* connect, up to the open of its new client: a failed open returns the
   error *)
ConnectOpen(openOk) ==
    LET c == Len(clients) + 1
    IN /\ calls.Connect.pc = "idle"
       /\ IF openOk
          THEN /\ Len(clients) < MaxClients
               /\ clients' = Append(clients, [Logger |-> logger, sids |-> 0])
               /\ calls' = [calls EXCEPT !.Connect.pc = "assign", !.Connect.c = c]
          ELSE /\ clients' = clients
               /\ calls' = [calls EXCEPT !.Connect.pc = "done",
                                         !.Connect.err = ErrConnect]
       /\ trace' = <<Call("Connect", c, config, "", 0)>>
       /\ Statement("Connect.open", "")
       /\ UNCHANGED <<client, subscriptions, rand, listeners, made, rejected>>

(* connect, `adapter.client = client` and the seeding of rand *)
ConnectAssign ==
    /\ calls.Connect.pc = "assign"
    /\ client' = calls.Connect.c
    /\ rand' = calls.Connect.c
    /\ calls' = [calls EXCEPT !.Connect.pc = "range"]
    /\ trace' = <<>>
    /\ Statement("Connect.assign", "")
    /\ UNCHANGED <<subscriptions, clients, listeners, made, rejected>>

(* ConnectRange with a loop that stops one subscription early *)
ConnectRange_SkipsLast ==
    /\ calls.Connect.pc = "range"
    /\ calls' = [calls EXCEPT !.Connect.pc = "replay",
                              !.Connect.n = IF Len(subscriptions) > 0
                                            THEN Len(subscriptions) - 1
                                            ELSE 0,
                              !.Connect.i = 1]
    /\ trace' = <<>>
    /\ Statement("Connect.range", "")
    /\ UNCHANGED <<client, subscriptions, rand, clients, listeners, made, rejected>>

(* connect, `range adapter.subscriptions`: the range statement reads the
   slice once, so the loop runs over the subscriptions stored at this
   moment *)
ConnectRange ==
    /\ calls.Connect.pc = "range"
    /\ calls' = [calls EXCEPT !.Connect.pc = "replay",
                              !.Connect.n = Len(subscriptions),
                              !.Connect.i = 1]
    /\ trace' = <<>>
    /\ Statement("Connect.range", "")
    /\ UNCHANGED <<client, subscriptions, rand, clients, listeners, made, rejected>>

(* connect, one iteration of the loop: subscribeInNats(adapter, sub) *)
ConnectReplay(ok) ==
    /\ calls.Connect.pc = "replay"
    /\ calls.Connect.i <= calls.Connect.n
    /\ Commit(subscribeInNats(State, calls.Connect.i, ok))
    /\ calls' = [calls EXCEPT !.Connect.i = @ + 1,
                              !.Subscribe.asked = @ \o Asked("Connect", calls.Connect.i, ok)]
    /\ Statement("Connect.replay", "")
    /\ UNCHANGED <<client, rand, made>>

(* connect, after the loop: it returns nil *)
ConnectReturn ==
    /\ calls.Connect.pc = "replay"
    /\ calls.Connect.i > calls.Connect.n
    /\ calls' = [calls EXCEPT !.Connect.pc = "done"]
    /\ trace' = <<>>
    /\ Statement("Connect.return", "")
    /\ UNCHANGED <<client, subscriptions, rand, clients, listeners, made, rejected>>

(* Calls of Connect and Subscribe one after another, and then one Subscribe
   and one Connect whose statements interleave *)
NextRace ==
    \/ \E openOk \in BOOLEAN, oks \in [DOMAIN subscriptions -> BOOLEAN] :
          Idle /\ Connect(openOk, oks)
    \/ \E s \in Subjects, ok \in BOOLEAN : Idle /\ Subscribe(s, ok)
    \/ \E s \in Subjects : SubscribeAppend(s)
    \/ SubscribeCheck
    \/ \E ok \in BOOLEAN : SubscribeRegister(ok)
    \/ \E openOk \in BOOLEAN : ConnectOpen(openOk)
    \/ ConnectAssign
    \/ ConnectRange
    \/ \E ok \in BOOLEAN : ConnectReplay(ok)
    \/ ConnectReturn

(* The adapter with a Subscribe and a Connect that run concurrently *)
SpecRace == Init /\ [][NextRace]_vars

(***************************************************************************)
(* The properties                                                          *)
(***************************************************************************)

(* The listeners that subscription sub has on client c *)
ListenersOf(sub, c) ==
    {j \in DOMAIN listeners : /\ listeners[j].client = c
                              /\ listeners[j].subject = sub.subject
                              /\ listeners[j].callback = sub.callback
                              /\ listeners[j].reply = sub.reply}

HandlerOf(sub) == IF sub.reply # NoFunc THEN sub.reply ELSE sub.callback

(* How often a message on sub's subject, with a reply-to address, invokes
   sub's handler *)
Invocations(sub) ==
    LET eff == deliver(Effects, 1, Message(sub.subject, "reply.to", 1))
    IN Cardinality({k \in DOMAIN eff.invoked : eff.invoked[k].h = HandlerOf(sub)})

(* The state right after the first successful Connect: every stored
   subscription was made while the adapter had no client *)
FirstConnect == ret.op = "Connect" /\ ret.err = Nil /\ Len(clients) = 1

(* The calls client.Subscribe of a replay of the stored subscriptions *)
ReplayCalls ==
    [i \in DOMAIN subscriptions |->
        Call("Subscribe", client, subscriptions[i].subject, "", 0)]

(* C1 as claimed: once the first Connect has succeeded, every subscription
   made before it has a listener on the new client, and a message on its
   subject invokes its handler. *)
C1_Original ==
    FirstConnect =>
        \A i \in DOMAIN subscriptions :
            /\ ListenersOf(subscriptions[i], client) # {}
            /\ Invocations(subscriptions[i]) >= 1

(* C1 amended: once the first Connect has succeeded, every subscription made
   before it whose registration the broker client accepted has exactly one
   listener on the new client and a message on its subject invokes its
   handler once; one whose registration was rejected has no listener, and
   Connect returned nil all the same. *)
C1_QueuedSubscriptionsActive ==
    FirstConnect =>
        \A i \in DOMAIN subscriptions :
            IF subscriptions[i].id = FailedSid
            THEN /\ ListenersOf(subscriptions[i], client) = {}
                 /\ Invocations(subscriptions[i]) = 0
            ELSE /\ Cardinality(ListenersOf(subscriptions[i], client)) = 1
                 /\ Invocations(subscriptions[i]) = 1

(* Two subscriptions on two subjects, queued and then both registered by the
   first Connect *)
C1_Witness ==
    /\ FirstConnect
    /\ Len(subscriptions) = 2
    /\ subscriptions[1].subject # subscriptions[2].subject
    /\ \A i \in DOMAIN subscriptions : subscriptions[i].id # FailedSid
    /\ \A i \in DOMAIN subscriptions : Invocations(subscriptions[i]) = 1

(* The step is a call of Subscribe or RespondToChannel *)
Subscribing == ret'.op \in {"Subscribe", "RespondToChannel"}

(* The subscription a call of Subscribe or RespondToChannel stores *)
Stored ==
    IF ret'.op = "Subscribe"
    THEN Subscription(ret'.subject, made', NoFunc)
    ELSE Subscription(ret'.subject, NoFunc, made')

(* Exactly one subscription is put at the end of the stored sequence, and
   the ones before it stay as they were *)
AppendsOne ==
    /\ Len(subscriptions') = Len(subscriptions) + 1
    /\ SubSeq(subscriptions', 1, Len(subscriptions)) = subscriptions
    /\ [subscriptions'[Len(subscriptions')] EXCEPT !.id = 0] = Stored

(* C2 as claimed: Subscribe and RespondToChannel return an error exactly when
   there is no client; either way one subscription is appended; with a
   client the subscription is registered, once, before nil is returned. *)
C2_Original ==
    [][Subscribing =>
          /\ (ret'.err # Nil) <=> (client = NoClient)
          /\ AppendsOne
          /\ client # NoClient =>
                /\ trace' = <<Call("Subscribe", client, ret'.subject, "", 0)>>
                /\ Len(listeners') = Len(listeners) + 1
                /\ \E j \in DOMAIN listeners' :
                      /\ j \notin DOMAIN listeners
                      /\ listeners'[j].client = client
                      /\ listeners'[j].subject = Stored.subject
                      /\ listeners'[j].callback = Stored.callback
                      /\ listeners'[j].reply = Stored.reply]_vars

(* C2 amended: Subscribe and RespondToChannel return the advisory error when
   there is no client and nil when there is one; either way one subscription
   is appended at the end.  Without a client the broker client is not called.
   With a client, client.Subscribe is called once before the return: when it
   accepts, the subscription gets one listener and its id; when it rejects,
   no listener is added and nil is returned all the same. *)
C2_SubscribeAppendsAndRegisters ==
    [][Subscribing =>
          /\ ret'.err = (IF client = NoClient THEN ErrCaching ELSE Nil)
          /\ AppendsOne
          /\ client' = client
          /\ IF client = NoClient
             THEN /\ trace' = <<>>
                  /\ listeners' = listeners
                  /\ subscriptions'[Len(subscriptions')].id = 0
             ELSE /\ trace' = <<Call("Subscribe", client, ret'.subject, "", 0)>>
                  /\ \/ /\ subscriptions'[Len(subscriptions')].id = FailedSid
                        /\ listeners' = listeners
                     \/ /\ subscriptions'[Len(subscriptions')].id > 0
                        /\ Len(listeners') = Len(listeners) + 1
                        /\ SubSeq(listeners', 1, Len(listeners)) = listeners
                        /\ listeners'[Len(listeners')] =
                              [client |-> client,
                               sid |-> subscriptions'[Len(subscriptions')].id,
                               subject |-> Stored.subject,
                               callback |-> Stored.callback,
                               reply |-> Stored.reply]]_vars

(* A RespondToChannel with a client, registered at once as the second
   stored subscription *)
C2_Witness ==
    /\ ret.op = "RespondToChannel"
    /\ ret.err = Nil
    /\ Len(subscriptions) = 2
    /\ subscriptions[2].id > 0
    /\ ListenersOf(subscriptions[2], client) # {}
    /\ Len(trace) = 1

(* No Connect has succeeded so far *)
NeverConnected == Len(clients) = 0

(* C3: as long as no Connect has succeeded, also after failed ones, Publish,
   Request and UnsubscribeAll return the no-connection error and Ping returns
   false; the call reaches no broker client and changes neither the stored
   subscriptions nor anything else of the adapter. *)
C3_NoConnectionFails ==
    [][(NeverConnected /\ ret'.op \in {"Publish", "Request", "UnsubscribeAll", "Ping"}) =>
          /\ ret'.op # "Ping" => ret'.err = ErrNoConnection
          /\ ret'.op = "Ping" => ret'.val = FALSE
          /\ trace' = <<>>
          /\ invoked' = <<>>
          /\ UNCHANGED <<client, config, subscriptions, rand, connectedCallback,
                         logger, clients, listeners, made, uuids>>]_vars

(* A Request refused for want of a connection while a subscription is queued *)
C3_Witness ==
    /\ NeverConnected
    /\ ret.op = "Request"
    /\ ret.err = ErrNoConnection
    /\ Len(subscriptions) > 0

(* The reply-mode listeners on a subject, in the order the broker serves them *)
ReplyListeners(subject) ==
    SelectSeq(listeners, LAMBDA l : l.subject = subject /\ l.reply # NoFunc)

(* The invocations of reply handlers among the last step's invocations *)
ReplyInvocations == SelectSeq(invoked, LAMBDA v : v.kind = "reply")

(* C4: a message with reply-to address R and payload P makes each reply-mode
   listener it reaches publish once, to R, what its reply handler returns
   for P, and nothing else is published; a message with an empty reply-to
   address makes no listener publish. *)
C4_ReplyPublishedToReplyTo ==
    ret.op = "Dispatch" =>
        LET rl == ReplyListeners(ret.subject)
        IN IF ret.replyTo = ""
           THEN trace = <<>>
           ELSE /\ Len(trace) = Len(rl)
                /\ \A k \in DOMAIN rl :
                      trace[k] = Call("Publish", client, ret.replyTo, "",
                                      ReplyOf(rl[k].reply, ret.payload))

(* A message with a reply-to address reaches one reply-mode listener, which
   publishes its reply there *)
C4_Witness ==
    /\ ret.op = "Dispatch"
    /\ ret.replyTo # ""
    /\ Len(ReplyListeners(ret.subject)) = 1
    /\ Len(trace) = 1
    /\ trace[1].subject = ret.replyTo
    /\ trace[1].payload = ReplyOf(ReplyListeners(ret.subject)[1].reply, ret.payload)

(* C5 as claimed: the reply handler of a reply-mode listener is invoked for
   every message on its subject, also for one without a reply-to address. *)
C5_Original ==
    ret.op = "Dispatch" =>
        Len(ReplyInvocations) = Len(ReplyListeners(ret.subject))

(* C5 amended: the reply handler of a reply-mode listener is invoked, once,
   with the payload, for every message on its subject that carries a
   reply-to address; for a message without one the handler is not invoked
   at all, and nothing is published. *)
C5_ReplyHandlerOnlyWithReplyTo ==
    ret.op = "Dispatch" =>
        LET rl == ReplyListeners(ret.subject)
        IN IF ret.replyTo = ""
           THEN ReplyInvocations = <<>> /\ trace = <<>>
           ELSE /\ Len(ReplyInvocations) = Len(rl)
                /\ \A k \in DOMAIN rl :
                      ReplyInvocations[k] =
                          Invocation("reply", rl[k].reply, ret.payload)

(* A message without a reply-to address reaches a reply-mode listener and
   its handler stays uninvoked *)
C5_Witness ==
    /\ ret.op = "Dispatch"
    /\ ret.replyTo = ""
    /\ Len(ReplyListeners(ret.subject)) > 0
    /\ invoked = <<>>

(* C6 as claimed: the inboxes of the stored Request subscriptions are
   pairwise distinct, and in every state one message on an inbox invokes the
   callback of that Request exactly once, with the payload, and nothing
   else. *)
C6_Original ==
    /\ \A i, j \in DOMAIN subscriptions :
          (i # j /\ subscriptions[i].subject \in Inboxes) =>
              subscriptions[i].subject # subscriptions[j].subject
    /\ (ret.op = "Dispatch" /\ ret.subject \in Inboxes) =>
          /\ Len(invoked) = 1
          /\ invoked[1].kind = "callback"
          /\ invoked[1].payload = ret.payload
          /\ trace = <<>>

(* C7 as claimed: after a successful UnsubscribeAll the stored sequence is
   empty and no message on any subject invokes a handler. *)
C7_Original ==
    (ret.op = "UnsubscribeAll" /\ ret.err = Nil) =>
        /\ subscriptions = <<>>
        /\ \A s \in AllSubjects, r \in ReplyTos, p \in Payloads :
              deliver(Effects, 1, Message(s, r, p)).invoked = <<>>

(* C8 as claimed: every stored subscription has exactly one registration on
   the current client. *)
C8_Original ==
    client # NoClient =>
        \A i \in DOMAIN subscriptions :
            Cardinality(ListenersOf(subscriptions[i], client)) = 1

(* The listeners on client c, in the order of their registration *)
ListenersOn(c) == SelectSeq(listeners, LAMBDA l : l.client = c)

(* The stored subscriptions whose last registration was accepted *)
Accepted == SelectSeq(subscriptions, LAMBDA sub : sub.id > 0)

(* C8 amended: each successful Connect calls client.Subscribe of the new
   client exactly once for every stored subscription, in insertion order,
   whenever the subscription was made; with the call made by Subscribe and
   RespondToChannel, every stored subscription has at most one listener on
   the current client: exactly one, under the id it stores, when the broker
   client accepted its last registration, none when it rejected it. *)
C8_OneRegistrationPerConnection ==
    /\ \A i \in DOMAIN subscriptions :
          LET sub == subscriptions[i]
              on == ListenersOf(sub, client)
          IN IF client = NoClient
             THEN sub.id = 0 /\ on = {}
             ELSE \/ sub.id = FailedSid /\ on = {}
                  \/ /\ sub.id > 0
                     /\ Cardinality(on) = 1
                     /\ \A j \in on : listeners[j].sid = sub.id
    /\ (ret.op = "Connect" /\ ret.err = Nil) =>
          /\ Len(trace) = 1 + Len(subscriptions)
          /\ trace[1] = Call("Connect", client, config, "", 0)
          /\ \A i \in DOMAIN subscriptions : trace[i + 1] = ReplayCalls[i]
          /\ Len(ListenersOn(client)) = Len(Accepted)
          /\ \A k \in DOMAIN Accepted :
                /\ ListenersOn(client)[k].callback = Accepted[k].callback
                /\ ListenersOn(client)[k].reply = Accepted[k].reply
                /\ ListenersOn(client)[k].sid = k

(* A second Connect replays two subscriptions on one subject, both of which
   had a listener on the first client already *)
C8_Witness ==
    /\ ret.op = "Connect"
    /\ ret.err = Nil
    /\ Len(clients) = 2
    /\ Len(subscriptions) = 2
    /\ \A i \in DOMAIN subscriptions : subscriptions[i].id = i
    /\ ListenersOf(subscriptions[1], 1) # {}
    /\ ListenersOf(subscriptions[2], 1) # {}
    /\ subscriptions[1].subject = subscriptions[2].subject

(* C9: once a Connect has succeeded the adapter has a client in every later
   state, whatever is called: Publish, Request and UnsubscribeAll do not
   return the no-connection error, Subscribe and RespondToChannel do not
   return the advisory error, and Ping asks the client. *)
C9_HandleNeverAbsentAgain ==
    [][Len(clients) > 0 =>
          /\ client # NoClient
          /\ client' # NoClient
          /\ ret'.err \notin {ErrNoConnection, ErrCaching}
          /\ ret'.op = "Ping" => trace' = <<Call("Ping", client', "", "", 0)>>]_vars

(* A Connect fails after an earlier one succeeded and the stored
   subscriptions were dropped by UnsubscribeAll: the client is still there *)
C9_Witness ==
    /\ ret.op = "Connect"
    /\ ret.err = ErrConnect
    /\ client # NoClient
    /\ subscriptions = <<>>
    /\ made > 0

(* C10: a Connect whose open fails returns the error of the open and changes
   nothing: the client, the stored subscriptions, the listeners and the rest
   of the adapter are as before, and the new client got no call but the
   open. *)
C10_FailedConnectChangesNothing ==
    [][(ret'.op = "Connect" /\ ret'.err # Nil) =>
          /\ ret'.err = ErrConnect
          /\ trace' = <<Call("Connect", Len(clients) + 1, config, "", 0)>>
          /\ invoked' = <<>>
          /\ UNCHANGED <<client, config, subscriptions, rand, connectedCallback,
                         logger, clients, listeners, made, uuids, rejected>>]_vars

(* A Connect fails while the adapter has a client and a registered
   subscription *)
C10_Witness ==
    /\ ret.op = "Connect"
    /\ ret.err = ErrConnect
    /\ client # NoClient
    /\ Len(subscriptions) > 0
    /\ listeners # <<>>

(* The invocations of the connected callback among the last step's
   invocations *)
ConnectedInvocations == SelectSeq(invoked, LAMBDA v : v.kind = "connected")

(* C11: OnConnect puts the callback it is passed into the single slot and
   nothing else writes the slot; a connected event of any client that a
   Connect has opened invokes the callback that is in the slot at that
   moment, once, and invokes nothing when the slot is empty; no other step
   invokes a connected callback.  So the callback invoked is always the one
   most recently passed to OnConnect, also when it was passed after Connect,
   and a replaced callback is not invoked again. *)
C11_LatestCallbackOnly ==
    [][/\ ret'.op = "OnConnect" => connectedCallback' = ret'.payload
       /\ ret'.op # "OnConnect" => connectedCallback' = connectedCallback
       /\ ret'.op = "ConnectedCallback" =>
             /\ invoked' = IF connectedCallback = NoFunc
                           THEN <<>>
                           ELSE <<Invocation("connected", connectedCallback, 0)>>
             /\ trace' = <<>>
       /\ ret'.op # "ConnectedCallback" => ConnectedInvocations' = <<>>]_vars

(* A connected event after two Connects invokes callback 2, the callback
   that the registered callbacks end with *)
C11_Witness ==
    /\ ret.op = "ConnectedCallback"
    /\ Len(clients) = 2
    /\ connectedCallback = 2
    /\ invoked = <<Invocation("connected", 2, 0)>>

(* The state right after a Request that returned nil *)
Requested == ret.op = "Request" /\ ret.err = Nil

(* The subscription at the end of the stored sequence *)
LastStored == subscriptions[Len(subscriptions)]

(* What a Request that got its inbox does, in order: the inbox is the fresh
   one, its subscription is at the end of the stored sequence, and the
   broker client was asked to register it and after that to publish the
   message with the inbox as reply-to address *)
RequestSteps ==
    /\ ret.replyTo = Inbox(uuids)
    /\ Len(subscriptions) > 0
    /\ [LastStored EXCEPT !.id = 0] = Subscription(ret.replyTo, made, NoFunc)
    /\ trace = <<Call("Subscribe", client, ret.replyTo, "", 0),
                 Call("PublishWithReplyTo", client, ret.subject, ret.replyTo,
                      ret.payload)>>

(* C12 as claimed: a successful Request generates the inbox, appends and
   registers its subscription and then publishes with the inbox as reply-to
   address, so that the inbox has its listener when the message is
   published. *)
C12_Original ==
    Requested =>
        /\ RequestSteps
        /\ ListenersOf(LastStored, client) # {}

(* C12 amended: a successful Request generates the inbox, appends its
   subscription to the stored sequence, asks the broker client to register
   it and only then publishes with the inbox as reply-to address; the inbox
   has its one listener at the publish when the broker client accepted the
   registration, and has none, with the message published and nil returned
   all the same, when it rejected it. *)
C12_RequestSubscribesThenPublishes ==
    Requested =>
        /\ RequestSteps
        /\ IF LastStored.id = FailedSid
           THEN ListenersOf(LastStored, client) = {}
           ELSE /\ LastStored.id > 0
                /\ Cardinality(ListenersOf(LastStored, client)) = 1
                /\ Invocations(LastStored) = 1

(* A second Request returns nil with its inbox registered *)
C12_Witness ==
    /\ Requested
    /\ uuids = 2
    /\ LastStored.id > 0
    /\ Invocations(LastStored) = 1

(* The stored subscriptions without the ids the broker client gave them:
   subscribeInNats writes sub.id through the pointer the sequence holds,
   which leaves the sequence itself as it is *)
Entries(subs) == [i \in DOMAIN subs |-> [subs[i] EXCEPT !.id = 0]]

(* The step puts the subscription of a fresh inbox at the end of the stored
   sequence and keeps the ones before it *)
AppendsInbox ==
    /\ Len(subscriptions') = Len(subscriptions) + 1
    /\ SubSeq(subscriptions', 1, Len(subscriptions)) = subscriptions
    /\ [subscriptions'[Len(subscriptions')] EXCEPT !.id = 0] =
          Subscription(Inbox(uuids'), made', NoFunc)
    /\ uuids' = uuids + 1

(* The ways the stored sequence changes, where appending tells the calls of
   Request that append *)
OnlyAppendedOrEmptied(appending) ==
    /\ Subscribing => AppendsOne
    /\ ret'.op = "Request" =>
          IF appending THEN AppendsInbox ELSE subscriptions' = subscriptions
    /\ ret'.op = "UnsubscribeAll" =>
          IF ret'.err = Nil
          THEN subscriptions' = <<>>
          ELSE subscriptions' = subscriptions
    /\ ret'.op \in {"Configure", "OnConnect", "SetLogger", "Publish", "Ping",
                    "Dispatch", "ConnectedCallback"} =>
          subscriptions' = subscriptions
    /\ ret'.op = "Connect" =>
          /\ Entries(subscriptions') = Entries(subscriptions)
          /\ ret'.err = Nil =>
                \A i \in DOMAIN subscriptions :
                    trace'[i + 1] =
                        Call("Subscribe", client', subscriptions[i].subject, "", 0)

(* C13 as claimed: Subscribe, RespondToChannel and every connected Request
   append exactly one entry at the end, a successful UnsubscribeAll empties
   the sequence, and no other operation changes it. *)
C13_Original ==
    [][OnlyAppendedOrEmptied(client # NoClient)]_vars

(* C13 amended: Subscribe, RespondToChannel and a connected Request whose
   inbox generation succeeds each append exactly one entry at the end,
   keeping the existing entries and their order; a successful UnsubscribeAll
   empties the sequence; a Request without a connection or whose inbox
   generation fails, a refused UnsubscribeAll, Configure, Connect, OnConnect,
   SetLogger, Publish, Ping, the connected events and message dispatch leave
   it unchanged, and every successful Connect replays every stored entry,
   the inboxes of earlier Requests among them. *)
C13_StoredSequenceAppendOnly ==
    [][OnlyAppendedOrEmptied(client # NoClient /\ ret'.err # ErrUuid)]_vars

(* A message has arrived on the inbox of a Request, a second Connect has
   replayed the inbox, and its subscription is still stored *)
C13_Witness ==
    /\ ret.op = "Dispatch"
    /\ ret.subject \in Inboxes
    /\ Len(clients) = 2
    /\ \E i \in DOMAIN subscriptions :
          /\ subscriptions[i].subject = ret.subject
          /\ ListenersOf(subscriptions[i], 1) # {}
          /\ ListenersOf(subscriptions[i], 2) # {}

(* C14 as claimed: after a second successful Connect, one message on the
   subject of a stored subscription, whose registration on the new
   connection was accepted, invokes that subscription's handler exactly
   once: the listeners of the previous connection deliver no more. *)
C14_Original ==
    Len(clients) >= 2 =>
        \A i \in DOMAIN subscriptions :
            subscriptions[i].id > 0 => Invocations(subscriptions[i]) = 1

(* The step is a Connect whose open succeeded: the new client is among the
   opened ones *)
Opened == ret'.op = "Connect" /\ Len(clients') = Len(clients) + 1

(* C15: Connect returns nil exactly when the open of the new client
   succeeds, whatever the registrations of the replay answer; the replay
   asks the new client to register every stored subscription, in order,
   also the ones after a rejected registration and the ones an earlier
   Connect saw rejected; every subscription stays stored, the rejected ones
   with the id of the failure and without a listener. *)
C15_ConnectResultIsTheOpen ==
    [][ret'.op = "Connect" =>
          /\ ret'.err = Nil <=> Opened
          /\ Opened =>
                /\ client' = Len(clients')
                /\ Entries(subscriptions') = Entries(subscriptions)
                /\ Len(trace') = 1 + Len(subscriptions)
                /\ \A i \in DOMAIN subscriptions :
                      /\ trace'[i + 1] =
                            Call("Subscribe", client', subscriptions[i].subject, "", 0)
                      /\ \/ /\ subscriptions'[i].id = FailedSid
                            /\ \A j \in DOMAIN listeners' :
                                  listeners'[j].client = client' =>
                                      listeners'[j].callback # subscriptions[i].callback
                                      \/ listeners'[j].reply # subscriptions[i].reply
                         \/ subscriptions'[i].id > 0]_vars

(* The first Connect returns nil although the registration of the first of
   two stored subscriptions was rejected, and the second one is registered *)
C15_Witness ==
    /\ FirstConnect
    /\ Len(subscriptions) = 2
    /\ subscriptions[1].id = FailedSid
    /\ subscriptions[2].id > 0
    /\ ListenersOf(subscriptions[1], client) = {}
    /\ ListenersOf(subscriptions[2], client) # {}

(* x, a stored subscription or a listener, has a callback and no reply
   handler, or a reply handler and no callback *)
CallbackMode(x) == x.callback # NoFunc /\ x.reply = NoFunc
ReplyMode(x) == x.reply # NoFunc /\ x.callback = NoFunc

(* The callback-mode listeners on a subject, in the order the broker serves
   them *)
CallbackListeners(subject) ==
    SelectSeq(listeners, LAMBDA l : l.subject = subject /\ l.reply = NoFunc)

(* The invocations of plain callbacks among the last step's invocations *)
CallbackInvocations == SelectSeq(invoked, LAMBDA v : v.kind = "callback")

(* Every stored subscription and every listener is in exactly one mode *)
OneMode ==
    /\ \A i \in DOMAIN subscriptions :
          CallbackMode(subscriptions[i]) # ReplyMode(subscriptions[i])
    /\ \A j \in DOMAIN listeners :
          CallbackMode(listeners[j]) # ReplyMode(listeners[j])

(* The subscription the last step created has the mode of the operation *)
ModeOfCreation ==
    /\ ret.op = "Subscribe" => CallbackMode(LastStored)
    /\ (ret.op = "Request" /\ ret.replyTo # "") =>
          CallbackMode(LastStored) /\ LastStored.subject = ret.replyTo
    /\ ret.op = "RespondToChannel" => ReplyMode(LastStored)

(* A message runs one branch per listener: the callback-mode listeners are
   invoked with the payload and publish nothing, the reply-mode listeners
   invoke no plain callback and are the only ones that publish *)
OneBranch ==
    ret.op = "Dispatch" =>
        LET cl == CallbackListeners(ret.subject)
            rl == ReplyListeners(ret.subject)
        IN /\ Len(CallbackInvocations) = Len(cl)
           /\ \A k \in DOMAIN cl :
                 CallbackInvocations[k] =
                     Invocation("callback", cl[k].callback, ret.payload)
           /\ Len(ReplyInvocations) = IF ret.replyTo = "" THEN 0 ELSE Len(rl)
           /\ Len(trace) = Len(ReplyInvocations)
           /\ Len(invoked) = Len(CallbackInvocations) + Len(ReplyInvocations)

(* C16: every stored subscription, and every listener registered for one, is
   in exactly one mode: callback mode when Subscribe or Request created it,
   reply mode when RespondToChannel did; no later step changes the mode of a
   stored subscription; and a message follows one branch per listener, so a
   callback-mode subscription never publishes a reply, also when the message
   carries a reply-to address, and a reply-mode subscription never invokes a
   plain callback. *)
C16_ExactlyOneMode ==
    [][/\ OneMode'
       /\ ModeOfCreation'
       /\ OneBranch'
       /\ Len(subscriptions') >= Len(subscriptions) =>
             \A i \in DOMAIN subscriptions :
                 /\ subscriptions'[i].callback = subscriptions[i].callback
                 /\ subscriptions'[i].reply = subscriptions[i].reply
                 /\ subscriptions'[i].subject = subscriptions[i].subject]_vars

(* A message with a reply-to address reaches a callback-mode listener and a
   reply-mode listener on one subject: one callback runs, one reply is
   published *)
C16_Witness ==
    /\ ret.op = "Dispatch"
    /\ ret.replyTo # ""
    /\ Len(CallbackListeners(ret.subject)) = 1
    /\ Len(ReplyListeners(ret.subject)) = 1
    /\ Len(CallbackInvocations) = 1
    /\ Len(trace) = 1

(* C17: a connected Request that gets no inbox, because uuid.NewV4 fails,
   returns the error of the generation; it appends nothing to the stored
   sequence, calls the broker client neither to register nor to publish,
   and leaves the adapter and the listeners as they were. *)
C17_InboxFailureChangesNothing ==
    [][(/\ ret'.op = "Request"
        /\ client # NoClient
        /\ uuids' = uuids \/ ret'.err = ErrUuid) =>
          /\ ret'.err = ErrUuid
          /\ ret'.replyTo = ""
          /\ trace' = <<>>
          /\ invoked' = <<>>
          /\ UNCHANGED <<client, config, subscriptions, rand, connectedCallback,
                         logger, clients, listeners, made, uuids, rejected>>]_vars

(* A connected Request fails at the generation of the inbox while a
   subscription is stored and registered *)
C17_Witness ==
    /\ ret.op = "Request"
    /\ ret.err = ErrUuid
    /\ client # NoClient
    /\ Len(subscriptions) = 1
    /\ Len(listeners) = 1
    /\ trace = <<>>

(* The step is a connected Request whose publish with reply-to failed *)
PublishFailed == ret'.op = "Request" /\ ret'.err = ErrPublish

(* C18 as claimed: when a connected Request returns the error of a failed
   publish, the stored sequence and the listeners are as before the call. *)
C18_Original ==
    [][PublishFailed => UNCHANGED <<subscriptions, listeners>>]_vars

(* C18 amended: when a connected Request returns the error of a failed
   publish, the inbox subscription created for the call is left at the end
   of the stored sequence, and left registered when the broker client
   accepted its registration; the entries and listeners that were there
   before are kept, and the connection handle and the rest of the adapter
   are unchanged. *)
C18_FailedPublishLeavesInbox ==
    [][PublishFailed =>
          /\ client # NoClient
          /\ AppendsInbox
          /\ ret'.replyTo = Inbox(uuids')
          /\ trace' = <<Call("Subscribe", client, ret'.replyTo, "", 0),
                        Call("PublishWithReplyTo", client, ret'.subject,
                             ret'.replyTo, ret'.payload)>>
          /\ IF subscriptions'[Len(subscriptions')].id = FailedSid
             THEN listeners' = listeners
             ELSE /\ Len(listeners') = Len(listeners) + 1
                  /\ SubSeq(listeners', 1, Len(listeners)) = listeners
                  /\ listeners'[Len(listeners')] =
                        [client |-> client,
                         sid |-> subscriptions'[Len(subscriptions')].id,
                         subject |-> ret'.replyTo,
                         callback |-> made',
                         reply |-> NoFunc]
          /\ UNCHANGED <<client, config, rand, connectedCallback, logger>>]_vars

(* A Request whose publish failed has left its inbox stored and registered,
   so that a message on the inbox still invokes its callback *)
C18_Witness ==
    /\ ret.op = "Request"
    /\ ret.err = ErrPublish
    /\ LastStored.subject = ret.replyTo
    /\ LastStored.id > 0
    /\ Invocations(LastStored) = 1

(* Both concurrent calls have returned, and the open of Connect succeeded *)
RaceDone ==
    /\ calls.Subscribe.pc = "done"
    /\ calls.Connect.pc = "done"
    /\ calls.Connect.err = Nil

(* The subscription of the concurrent Subscribe *)
RacedSub == subscriptions[calls.Subscribe.i]

(* The registrations of that subscription asked of the new client *)
AskedOnNew ==
    SelectSeq(calls.Subscribe.asked, LAMBDA a : a.client = calls.Connect.c)

(* The subscription of the concurrent Subscribe is in the stored sequence,
   once, and nothing else was lost or added *)
RacedSubStored ==
    /\ calls.Subscribe.i = Len(subscriptions)
    /\ [RacedSub EXCEPT !.id = 0] = Subscription(RacedSub.subject, made, NoFunc)
    /\ client = calls.Connect.c

(* C19 as claimed: when the concurrent Subscribe and Connect have returned,
   the subscription is stored and its registration was asked of the new
   client exactly once. *)
C19_Original ==
    RaceDone =>
        /\ RacedSubStored
        /\ Len(AskedOnNew) = 1

(* C19 amended: when the concurrent Subscribe and Connect have returned, the
   subscription is stored, once, and its registration was asked of the new
   client once or twice, never zero times: twice exactly when Subscribe
   appended before the range statement of connect and registered after the
   assignment of the handle.  It has one listener on the new client for
   every registration the broker client accepted. *)
C19_RegisteredOnceOrTwice ==
    RaceDone =>
        /\ RacedSubStored
        /\ Len(AskedOnNew) \in {1, 2}
        /\ Cardinality(ListenersOf(RacedSub, calls.Connect.c)) =
              Len(SelectSeq(AskedOnNew, LAMBDA a : a.ok))
        /\ Len(AskedOnNew) = 2 <=>
              /\ calls.Subscribe.i <= calls.Connect.n
              /\ \E k \in DOMAIN AskedOnNew : AskedOnNew[k].by = "Subscribe"

(* Subscribe and the replay of a concurrent Connect both registered the
   subscription on the new client: a message on its subject invokes its
   callback twice *)
C19_Witness ==
    /\ RaceDone
    /\ Len(AskedOnNew) = 2
    /\ Cardinality(ListenersOf(RacedSub, calls.Connect.c)) = 2
    /\ Invocations(RacedSub) >= 2
====
